---- MODULE Spec2Model ----
(***************************************************************************)
(* Model of backend/train.py: the two entry points train() and main() that *)
(* run an H2O AutoML training under MLflow tracking.  Each caller in Procs *)
(* executes one entry point statement by statement against                 *)
(*   - the MLflow file store (experiments, runs, metrics, artifacts),      *)
(*   - the local file system (train_col_types.json, leaderboard.csv),      *)
(*   - the H2O engine (init, import_file, AutoML train).                   *)
(* The file store is the one the code selects (train.py:18-20, and the     *)
(* ./mlruns default that main() assumes at train.py:193): its              *)
(* create_experiment validates that the name is free and then writes the   *)
(* experiment, as two separate steps without a lock.                       *)
(***************************************************************************)
EXTENDS Integers, Sequences, FiniteSets, TLC

\* ------------------------------------------------------------------ bounds
\* Total number of train()/main() invocations over all callers.
MaxInvocations == 2

Procs == {"p1", "p2"}

\* ------------------------------------------------------- program constants
\* Python's None, for experiment / run references that hold no object.
None == 0

Names == {"exp-A", "exp-B"}
Targets == {"claim", "nonexistent_col"}

\* main() always reads this path (train.py:150); train() is given a path.
MainCsv == "data/processed/train.csv"
AltCsv == "data/processed/train_v2.csv"
FilePaths == {MainCsv, AltCsv}

\* The frames h2o.import_file infers from the two datasets.
FrameOf(path) ==
    IF path = MainCsv
    THEN [cols |-> <<"age", "income", "claim">>,
          types |-> [c \in {"age", "income", "claim"} |->
                        IF c = "income" THEN "real" ELSE "int"]]
    ELSE [cols |-> <<"claim", "age">>,
          types |-> [c \in {"claim", "age"} |->
                        IF c = "claim" THEN "string" ELSE "int"]]
NoFrame == [cols |-> <<>>, types |-> <<>>]

\* The leaderboard the engine reports for a training on each dataset:
\* candidate models ranked by logloss (sort_metric), best first.
LeaderboardOf(path) ==
    IF path = MainCsv
    THEN <<[model_id |-> "XGBoost_1", logloss |-> 31],
           [model_id |-> "GBM_2", logloss |-> 35],
           [model_id |-> "DeepLearning_1", logloss |-> 52]>>
    ELSE <<[model_id |-> "StackedEnsemble_1", logloss |-> 40],
           [model_id |-> "GBM_1", logloss |-> 44]>>

\* Artifact roots an experiment of the store may have: the store's own
\* directory, another local directory, or a remote object store.
DefaultRoot == [scheme |-> "file", root |-> "mlruns"]
Layouts == {DefaultRoot,
            [scheme |-> "file", root |-> "mnt/artifacts"],
            [scheme |-> "s3", root |-> "bucket"]}

NoPath == [root |-> "", exp |-> None, run |-> None, sub |-> ""]
NoUri == [scheme |-> "", root |-> "", exp |-> None, run |-> None, sub |-> ""]

VARIABLES
    pc,              \* statement each caller is at
    loc,             \* each caller's local variables
    experiments,     \* store: sequence of experiments, id = index
    runs,            \* store: sequence of runs, run_id = index
    col_types_json,  \* content of data/processed/train_col_types.json
    lb_files,        \* paths at which a leaderboard.csv exists
    lb_csv,          \* content of each leaderboard.csv, by path
    resolved,        \* <<name, experiment_id>> pairs resolutions returned
    invocations      \* number of invocations started

vars == <<pc, loc, experiments, runs, col_types_json, lb_files, lb_csv,
          resolved, invocations>>

\* ------------------------------------------------------------ program order
\* train() writing the leaderboard before it logs the model.
TrainOrder_LeaderboardFirst ==
    <<"init", "exists", "import", "col_types", "predictors", "asfactor",
      "create_check", "create_write", "lookup", "set_experiment",
      "start_run", "log_input", "log_col_types", "automl",
      "metric_logloss", "metric_auc", "artifact_uri", "leaderboard",
      "log_model", "exit">>

\* train() saving the column types after it has factorized the target.
TrainOrder_SnapshotAfterFactorize ==
    <<"init", "exists", "import", "predictors", "asfactor", "col_types",
      "create_check", "create_write", "lookup", "set_experiment",
      "start_run", "log_input", "log_col_types", "automl",
      "metric_logloss", "metric_auc", "log_model", "artifact_uri",
      "leaderboard", "exit">>

\* The statements of train(), train.py:16-88, in program order.
TrainOrder ==
    <<"init", "exists", "import", "col_types", "predictors", "asfactor",
      "create_check", "create_write", "lookup", "set_experiment",
      "start_run", "log_input", "log_col_types", "automl",
      "metric_logloss", "metric_auc", "log_model", "artifact_uri",
      "leaderboard", "exit">>

\* main() factorizing the target inside the run block.
MainOrder_FactorizeInRun ==
    <<"init", "create_check", "create_write", "lookup_try", "lookup",
      "set_experiment", "print", "import", "col_types", "predictors",
      "start_run", "asfactor", "automl", "metric_logloss", "metric_auc",
      "log_model", "artifact_uri", "leaderboard", "exit">>

\* The statements of main(), train.py:120-195, in program order.
MainOrder ==
    <<"init", "create_check", "create_write", "lookup_try", "lookup",
      "set_experiment", "print", "import", "col_types", "predictors",
      "asfactor", "start_run", "automl", "metric_logloss", "metric_auc",
      "log_model", "artifact_uri", "leaderboard", "exit">>

Order(e) == IF e = "train" THEN TrainOrder ELSE MainOrder

IndexOf(seq, x) == CHOOSE i \in 1..Len(seq) : seq[i] = x

\* The statement that follows `label` in the entry point of caller p.
After(p, label) ==
    LET o == Order(loc[p].entry) IN o[IndexOf(o, label) + 1]

\* "idle": outside an entry point.  "returned" / "raised": the entry point
\* has returned, or an exception is propagating out of it.
Leaving == {"returned", "raised"}

InitLocal ==
    [entry |-> "train", name |-> "exp-A", target |-> "claim",
     file |-> MainCsv, frame |-> NoFrame, predictors |-> <<>>,
     experiment_id |-> None, experiment |-> None, active_exp |-> None,
     run_id |-> None, exc |-> "", model_uri |-> NoUri, lb_path |-> NoPath,
     calls |-> {}, leaderboard |-> <<>>, train_calls |-> 0,
     store_down |-> FALSE]

\* ------------------------------------------------------------ file formats
\* json.dump(main_frame.types, fp): one "name": "type" member per column, in
\* the order of the dict, which is the frame's column order.
JsonDump(frame) ==
    [i \in 1..Len(frame.cols) |-> <<frame.cols[i], frame.types[frame.cols[i]]>>]

\* json.load of such a file: the mapping from each member name to its value
\* (the last one, were a name repeated).
JsonLoad(text) ==
    [k \in {text[i][1] : i \in DOMAIN text} |->
        LET last == CHOOSE i \in DOMAIN text :
                        /\ text[i][1] = k
                        /\ \A j \in DOMAIN text : text[j][1] = k => j <= i
        IN text[last][2]]

\* lb.as_data_frame(): the rows of the H2O frame under a 0-based RangeIndex.
AsDataFrame(lb) == [i \in 0..(Len(lb) - 1) |-> lb[i + 1]]

CsvHeader == <<"model_id", "logloss">>

\* An export that sorts the rows by logloss, worst first, before writing.
ToCsv_SortedDescending(df) ==
    LET Rank(i) == Cardinality({j \in DOMAIN df : df[j].logloss >= df[i].logloss})
    IN <<CsvHeader>> \o
       [k \in 1..Cardinality(DOMAIN df) |->
           LET i == CHOOSE i \in DOMAIN df : Rank(i) = k
           IN <<df[i].model_id, df[i].logloss>>]

\* df.to_csv(path, index=False): the header line, then one line per row in
\* index order, without the index column.
ToCsv(df) ==
    <<CsvHeader>> \o
    [k \in 1..Cardinality(DOMAIN df) |-> <<df[k - 1].model_id, df[k - 1].logloss>>]

\* --------------------------------------------------------------- the store
ExperimentIds == 1..Len(experiments)
ByName(n) == {i \in ExperimentIds : experiments[i].name = n}

\* An artifact location that leaves the run id out: one directory per
\* experiment.
ArtifactUri_PerExperiment(r, sub) ==
    LET e == runs[r].exp IN
    [scheme |-> experiments[e].layout.scheme,
     root |-> experiments[e].layout.root, exp |-> e, run |-> None, sub |-> sub]

\* mlflow.get_artifact_uri(sub) of run r: the experiment's artifact root,
\* then experiment id, run id and the sub-path.
ArtifactUri(r, sub) ==
    LET e == runs[r].exp IN
    [scheme |-> experiments[e].layout.scheme,
     root |-> experiments[e].layout.root, exp |-> e, run |-> r, sub |-> sub]

\* model_uri.replace("file:", ""): the local path of a file: URI.
LocalPath(uri) ==
    [root |-> uri.root, exp |-> uri.exp, run |-> uri.run, sub |-> uri.sub]

\* f'mlruns/{exp_id}/{run_id}/artifacts/model/leaderboard.csv'
FixedLayoutPath(exp_id, run_id) ==
    [root |-> "mlruns", exp |-> exp_id, run |-> run_id, sub |-> "model"]

\* ------------------------------------------------------------------- Init
\* No caller is inside an entry point.  The store already holds experiment
\* "exp-B", created elsewhere with an artifact root of its own; "exp-A" is
\* unseen.
Init ==
    /\ pc = [p \in Procs |-> "idle"]
    /\ loc = [p \in Procs |-> InitLocal]
    /\ experiments \in {<<[name |-> "exp-B", layout |-> l]>> :
                            l \in Layouts \ {DefaultRoot}}
    /\ runs = <<>>
    /\ col_types_json = <<>>
    /\ lb_files = {}
    /\ lb_csv = <<>>
    /\ resolved = {}
    /\ invocations = 0

\* ---------------------------------------------------------------- helpers
\* An exception that leaves the entry point before a run is open.
Raise(p, kind, l) ==
    /\ pc' = [pc EXCEPT ![p] = "raised"]
    /\ loc' = [l EXCEPT ![p].exc = kind]

\* An exception inside the `with mlflow.start_run()` block: control goes to
\* the context manager's exit.
RaiseInRun(p, kind, l) ==
    /\ pc' = [pc EXCEPT ![p] = "exit"]
    /\ loc' = [l EXCEPT ![p].exc = kind]

Goto(p, label) == pc' = [pc EXCEPT ![p] = label]

Called(p, what) == [loc EXCEPT ![p].calls = @ \cup {what}]

\* ---------------------------------------------------------------- actions
\* A caller invokes train(experiment_name, target, models, file_path) or
\* main() (whose arguments come from the command line).
Start(p) ==
    /\ pc[p] = "idle"
    /\ p = "p2" => pc["p1"] # "idle"
    /\ invocations < MaxInvocations
    /\ invocations' = invocations + 1
    /\ \E e \in {"train", "main"}, n \in Names, t \in Targets, f \in FilePaths :
        /\ e = "main" => f = MainCsv
        /\ loc' = [loc EXCEPT ![p] =
                     [InitLocal EXCEPT !.entry = e, !.name = n,
                                       !.target = t, !.file = f]]
    /\ Goto(p, "init")
    /\ UNCHANGED <<experiments, runs, col_types_json, lb_files, lb_csv,
                   resolved>>

\* train.py:18-23 (makedirs, set_tracking_uri, h2o.init) and 125-131.
H2OInit(p) ==
    /\ pc[p] = "init"
    /\ loc' = Called(p, "h2o.init")
    /\ Goto(p, After(p, "init"))
    /\ UNCHANGED <<experiments, runs, col_types_json, lb_files, lb_csv,
                   resolved, invocations>>

\* train.py:26-27: os.path.exists(file_path) finds the file or not.
CheckExists(p) ==
    /\ pc[p] = "exists"
    /\ \E exists \in BOOLEAN :
        IF exists
        THEN Goto(p, After(p, "exists")) /\ UNCHANGED loc
        ELSE Raise(p, "FileNotFoundError", loc)
    /\ UNCHANGED <<experiments, runs, col_types_json, lb_files, lb_csv,
                   resolved, invocations>>

\* train.py:29 and 150: h2o.import_file.  train() has checked the path;
\* main() has not, and a missing file is the engine's file-not-found failure.
ImportFile(p) ==
    /\ pc[p] = "import"
    /\ \E exists \in BOOLEAN :
        /\ loc[p].entry = "train" => exists
        /\ IF exists
           THEN /\ loc' = [Called(p, "h2o.import_file") EXCEPT
                             ![p].frame = FrameOf(loc[p].file)]
                /\ Goto(p, After(p, "import"))
           ELSE Raise(p, "FileNotFoundError", Called(p, "h2o.import_file"))
    /\ UNCHANGED <<experiments, runs, col_types_json, lb_files, lb_csv,
                   resolved, invocations>>

\* The snapshot file opened in append mode: the new members follow what the
\* file already holds.
PersistColTypes_Append(p) ==
    /\ pc[p] = "col_types"
    /\ col_types_json' = col_types_json \o JsonDump(loc[p].frame)
    /\ Goto(p, After(p, "col_types"))
    /\ UNCHANGED <<loc, experiments, runs, lb_files, lb_csv,
                   resolved, invocations>>

\* train.py:32-34 and 153-154: open(col_type_path, 'w') truncates the file,
\* json.dump(main_frame.types, fp) writes the snapshot.
PersistColTypes(p) ==
    /\ pc[p] = "col_types"
    /\ col_types_json' = JsonDump(loc[p].frame)
    /\ Goto(p, After(p, "col_types"))
    /\ UNCHANGED <<loc, experiments, runs, lb_files, lb_csv,
                   resolved, invocations>>

\* Predictors taken by position, on the assumption that the target is the
\* last column.
Without_DropLast(cols, t) == SubSeq(cols, 1, Len(cols) - 1)

\* [n for n in main_frame.col_names if n != target]
Without(cols, t) == SelectSeq(cols, LAMBDA n : n # t)

\* train.py:36 and 158.
SelectPredictors(p) ==
    /\ pc[p] = "predictors"
    /\ loc' = [loc EXCEPT ![p].predictors = Without(loc[p].frame.cols, loc[p].target)]
    /\ Goto(p, After(p, "predictors"))
    /\ UNCHANGED <<experiments, runs, col_types_json, lb_files, lb_csv,
                   resolved, invocations>>

\* main_frame[target].asfactor(): the column becomes categorical.
Factorized(frame, t) == [frame EXCEPT !.types[t] = "enum"]

\* train.py:37 and 161.  Selecting a column the frame does not have fails
\* in the engine's frame API.
AsFactor(p) ==
    /\ pc[p] = "asfactor"
    /\ IF loc[p].target \in DOMAIN loc[p].frame.types
       THEN /\ loc' = [loc EXCEPT ![p].frame = Factorized(@, loc[p].target)]
            /\ Goto(p, After(p, "asfactor"))
       ELSE Raise(p, "InvalidTargetError", loc)
    /\ UNCHANGED <<experiments, runs, col_types_json, lb_files, lb_csv,
                   resolved, invocations>>

\* train.py:42 and 135, first half of mlflow.create_experiment: the store is
\* reached and validates that no experiment has the name.  Any failure is
\* swallowed by the bare `except:` and leads to the fallback lookup.
CreateExperimentCheck(p) ==
    /\ pc[p] = "create_check"
    /\ \E available \in BOOLEAN :
        /\ loc' = [Called(p, "create_experiment") EXCEPT
                     ![p].store_down = ~available]
        /\ IF available /\ ByName(loc[p].name) = {}
           THEN Goto(p, "create_write")
           ELSE Goto(p, "lookup")
    /\ UNCHANGED <<experiments, runs, col_types_json, lb_files, lb_csv,
                   resolved, invocations>>

\* Where create_experiment returns to: train() skips the except branch,
\* main() continues with the lookup inside the try block (train.py:136).
AfterCreate(p) == IF loc[p].entry = "train" THEN After(p, "lookup") ELSE "lookup_try"

\* Second half of mlflow.create_experiment: the experiment is written under
\* a fresh id, with the store's default artifact root.  The write can also
\* fail on an id collision with a concurrent creation, which the bare
\* `except:` swallows as well.
CreateExperimentWrite(p) ==
    /\ pc[p] = "create_write"
    /\ \E collide \in BOOLEAN :
        /\ collide => ByName(loc[p].name) # {}
        /\ IF collide
           THEN /\ Goto(p, "lookup")
                /\ UNCHANGED <<loc, experiments, resolved>>
           ELSE /\ experiments' = Append(experiments,
                                    [name |-> loc[p].name, layout |-> DefaultRoot])
                /\ loc' = [loc EXCEPT ![p].experiment_id = Len(experiments) + 1]
                /\ resolved' = resolved \cup {<<loc[p].name, Len(experiments) + 1>>}
                /\ Goto(p, AfterCreate(p))
    /\ UNCHANGED <<runs, col_types_json, lb_files, lb_csv,
                   invocations>>

\* train.py:136: client.get_experiment_by_name inside the try block of
\* main(); a failure here falls into the except branch.
LookupInTry(p) ==
    /\ pc[p] = "lookup_try"
    /\ \E available \in BOOLEAN :
        IF available
        THEN /\ \E e \in ByName(loc[p].name) :
                    /\ loc' = [Called(p, "get_experiment_by_name") EXCEPT
                                 ![p].experiment = e]
                    /\ resolved' = resolved \cup {<<loc[p].name, e>>}
             /\ Goto(p, After(p, "lookup"))
        ELSE /\ loc' = [Called(p, "get_experiment_by_name") EXCEPT
                          ![p].store_down = TRUE]
             /\ Goto(p, "lookup")
             /\ UNCHANGED resolved
    /\ UNCHANGED <<experiments, runs, col_types_json, lb_files, lb_csv,
                   invocations>>

\* A lookup that returns an experiment of the store whatever its name.
LookupResults_AnyName(n) == IF ExperimentIds = {} THEN {None} ELSE ExperimentIds

\* What client.get_experiment_by_name(name) may return: an experiment of
\* that name, or None when there is none.
LookupResults(n) == IF ByName(n) = {} THEN {None} ELSE ByName(n)

\* train.py:44-45 and 138: the fallback lookup of the except branch.
\* train() reads experiment.experiment_id at once, main() only at line 144.
FallbackLookup(p) ==
    /\ pc[p] = "lookup"
    /\ \E available \in BOOLEAN :
        IF ~available
        THEN Raise(p, "RegistryUnavailableError",
                   [Called(p, "get_experiment_by_name") EXCEPT
                      ![p].store_down = TRUE])
             /\ UNCHANGED resolved
        ELSE \E e \in LookupResults(loc[p].name) :
                IF e = None /\ loc[p].entry = "train"
                THEN Raise(p, "AttributeError", Called(p, "get_experiment_by_name"))
                     /\ UNCHANGED resolved
                ELSE /\ loc' = [Called(p, "get_experiment_by_name") EXCEPT
                                  ![p].experiment = e,
                                  ![p].experiment_id =
                                      IF loc[p].entry = "train" THEN e ELSE @]
                     /\ resolved' = IF e = None THEN resolved
                                    ELSE resolved \cup {<<loc[p].name, e>>}
                     /\ Goto(p, After(p, "lookup"))
    /\ UNCHANGED <<experiments, runs, col_types_json, lb_files, lb_csv,
                   invocations>>

\* train.py:47 and 140: mlflow.set_experiment(name) makes the experiment of
\* that name the active one, creating it when the store has none.  It is
\* outside the try block: a store failure propagates.
SetExperiment(p) ==
    /\ pc[p] = "set_experiment"
    /\ \E available \in BOOLEAN :
        IF ~available
        THEN /\ Raise(p, "RegistryUnavailableError",
                      [Called(p, "set_experiment") EXCEPT ![p].store_down = TRUE])
             /\ UNCHANGED experiments
        ELSE /\ IF ByName(loc[p].name) = {}
                THEN /\ experiments' = Append(experiments,
                                         [name |-> loc[p].name, layout |-> DefaultRoot])
                     /\ loc' = [Called(p, "set_experiment") EXCEPT
                                  ![p].active_exp = Len(experiments) + 1]
                ELSE /\ \E e \in ByName(loc[p].name) :
                            loc' = [Called(p, "set_experiment") EXCEPT
                                      ![p].active_exp = e]
                     /\ UNCHANGED experiments
             /\ Goto(p, After(p, "set_experiment"))
    /\ UNCHANGED <<runs, col_types_json, lb_files, lb_csv,
                   resolved, invocations>>

\* train.py:143-147: main() prints experiment.experiment_id and the other
\* attributes of the looked-up experiment.
PrintDetails(p) ==
    /\ pc[p] = "print"
    /\ IF loc[p].experiment = None
       THEN Raise(p, "AttributeError", loc)
       ELSE Goto(p, After(p, "print")) /\ UNCHANGED loc
    /\ UNCHANGED <<experiments, runs, col_types_json, lb_files, lb_csv,
                   resolved, invocations>>

\* -------------------------------------------------------------- the run
RunIds == 1..Len(runs)

\* train.py:50 and 164: mlflow.start_run() opens a new run under the active
\* experiment and makes it the caller's active run.
StartRun(p) ==
    /\ pc[p] = "start_run"
    /\ runs' = Append(runs, [exp |-> loc[p].active_exp,
                             status |-> "RUNNING", metrics |-> {},
                             artifacts |-> {}, col_types |-> <<>>,
                             lb |-> NoPath, ends |-> 0])
    /\ loc' = [Called(p, "start_run") EXCEPT ![p].run_id = Len(runs) + 1]
    /\ Goto(p, After(p, "start_run"))
    /\ UNCHANGED <<experiments, col_types_json, lb_files, lb_csv,
                   resolved, invocations>>

\* train.py:54: mlflow.log_artifact(file_path, artifact_path="input_data").
LogInputData(p) ==
    /\ pc[p] = "log_input"
    /\ \E ok \in BOOLEAN :
        IF ok
        THEN /\ runs' = [runs EXCEPT ![loc[p].run_id].artifacts =
                                        @ \cup {"input_data/dataset"}]
             /\ Goto(p, After(p, "log_input"))
             /\ UNCHANGED loc
        ELSE RaiseInRun(p, "IOError", loc) /\ UNCHANGED runs
    /\ UNCHANGED <<experiments, col_types_json, lb_files, lb_csv,
                   resolved, invocations>>

\* train.py:55: mlflow.log_artifact(col_type_path, artifact_path="input_data")
\* copies what the local file holds at that moment.
LogColTypes(p) ==
    /\ pc[p] = "log_col_types"
    /\ \E ok \in BOOLEAN :
        IF ok
        THEN /\ runs' = [runs EXCEPT
                           ![loc[p].run_id].artifacts = @ \cup {"input_data/col_types"},
                           ![loc[p].run_id].col_types = col_types_json]
             /\ Goto(p, After(p, "log_col_types"))
             /\ UNCHANGED loc
        ELSE RaiseInRun(p, "IOError", loc) /\ UNCHANGED runs
    /\ UNCHANGED <<experiments, col_types_json, lb_files, lb_csv,
                   resolved, invocations>>

\* One invocation of the engine's training by caller p.
Engine(p) == [Called(p, "aml.train") EXCEPT ![p].train_calls = @ + 1]

\* A training wrapped in a retry: the first failure of the engine is caught
\* and the training invoked once more.
AutoMLTrain_Retry(p) ==
    /\ pc[p] = "automl"
    /\ \E ok \in BOOLEAN :
        IF ok
        THEN /\ loc' = [Engine(p) EXCEPT
                          ![p].leaderboard = LeaderboardOf(loc[p].file)]
             /\ Goto(p, After(p, "automl"))
        ELSE IF loc[p].train_calls = 0
             THEN loc' = Engine(p) /\ UNCHANGED pc
             ELSE RaiseInRun(p, "TrainingError", Engine(p))
    /\ UNCHANGED <<experiments, runs, col_types_json, lb_files, lb_csv,
                   resolved, invocations>>

\* train.py:58-66 and 165-175: H2OAutoML(...).train(...), which returns or
\* raises.
AutoMLTrain(p) ==
    /\ pc[p] = "automl"
    /\ \E ok \in BOOLEAN :
        IF ok
        THEN /\ loc' = [Engine(p) EXCEPT
                          ![p].leaderboard = LeaderboardOf(loc[p].file)]
             /\ Goto(p, After(p, "automl"))
        ELSE RaiseInRun(p, "TrainingError", Engine(p))
    /\ UNCHANGED <<experiments, runs, col_types_json, lb_files, lb_csv,
                   resolved, invocations>>

\* A metric logged through a client bound to the store's first run instead
\* of the caller's active run.
LogMetric_FirstRun(p, label, name) ==
    /\ pc[p] = label
    /\ \E ok \in BOOLEAN :
        IF ok
        THEN /\ runs' = [runs EXCEPT ![1].metrics = @ \cup {name}]
             /\ Goto(p, After(p, label))
             /\ UNCHANGED loc
        ELSE RaiseInRun(p, "IOError", loc) /\ UNCHANGED runs
    /\ UNCHANGED <<experiments, col_types_json, lb_files, lb_csv,
                   resolved, invocations>>

\* mlflow.log_metric(name, value) on the caller's active run.
LogMetric(p, label, name) ==
    /\ pc[p] = label
    /\ \E ok \in BOOLEAN :
        IF ok
        THEN /\ runs' = [runs EXCEPT ![loc[p].run_id].metrics = @ \cup {name}]
             /\ Goto(p, After(p, label))
             /\ UNCHANGED loc
        ELSE RaiseInRun(p, "IOError", loc) /\ UNCHANGED runs
    /\ UNCHANGED <<experiments, col_types_json, lb_files, lb_csv,
                   resolved, invocations>>

\* train.py:69 and 178.
LogLogLoss(p) == LogMetric(p, "metric_logloss", "log_loss")

\* train.py:70 and 179.
LogAUC(p) == LogMetric(p, "metric_auc", "AUC")

\* train.py:73 and 182: mlflow.h2o.log_model(aml.leader, artifact_path="model").
LogModel(p) ==
    /\ pc[p] = "log_model"
    /\ \E ok \in BOOLEAN :
        IF ok
        THEN /\ runs' = [runs EXCEPT ![loc[p].run_id].artifacts = @ \cup {"model"}]
             /\ Goto(p, After(p, "log_model"))
             /\ UNCHANGED loc
        ELSE RaiseInRun(p, "IOError", loc) /\ UNCHANGED runs
    /\ UNCHANGED <<experiments, col_types_json, lb_files, lb_csv,
                   resolved, invocations>>

\* train.py:76-77, 87-88 and 184: model_uri = mlflow.get_artifact_uri("model").
\* train() goes on to the leaderboard only for a file: URI and otherwise
\* prints a warning; main() goes on in every case.
GetArtifactUri(p) ==
    /\ pc[p] = "artifact_uri"
    /\ LET uri == ArtifactUri(loc[p].run_id, "model") IN
        /\ loc' = [loc EXCEPT ![p].model_uri = uri]
        /\ IF loc[p].entry = "train" /\ uri.scheme # "file"
           THEN Goto(p, "exit")
           ELSE Goto(p, After(p, "artifact_uri"))
    /\ UNCHANGED <<experiments, runs, col_types_json, lb_files, lb_csv,
                   resolved, invocations>>

\* The local directories mlflow.h2o.log_model has created.
ModelDirs ==
    {LocalPath(ArtifactUri(r, "model")) :
        r \in {x \in RunIds : /\ "model" \in runs[x].artifacts
                              /\ experiments[runs[x].exp].layout.scheme = "file"}}

\* Where the entry point of p writes leaderboard.csv: train.py:78-80
\* (from model_uri) and 188-193 (from the assumed mlruns layout).
LeaderboardPath(p) ==
    IF loc[p].entry = "train"
    THEN LocalPath(loc[p].model_uri)
    ELSE FixedLayoutPath(loc[p].experiment, loc[p].run_id)

\* train.py:78-86 and 187-195: lb.as_data_frame().to_csv(path).  train()
\* creates the directory first; in main() the write fails when the directory
\* does not exist.
WriteLeaderboard(p) ==
    /\ pc[p] = "leaderboard"
    /\ LET path == LeaderboardPath(p)
           l == [loc EXCEPT ![p].lb_path = path] IN
        \E ok \in BOOLEAN :
            IF ok /\ (loc[p].entry = "train" \/ path \in ModelDirs)
            THEN /\ lb_files' = lb_files \cup {path}
                 /\ lb_csv' = [f \in lb_files \cup {path} |->
                                 IF f = path
                                 THEN ToCsv(AsDataFrame(loc[p].leaderboard))
                                 ELSE lb_csv[f]]
                 /\ runs' = [runs EXCEPT ![loc[p].run_id].lb = path]
                 /\ loc' = l
                 /\ Goto(p, After(p, "leaderboard"))
            ELSE RaiseInRun(p, "IOError", l) /\ UNCHANGED <<lb_files, lb_csv, runs>>
    /\ UNCHANGED <<experiments, col_types_json,
                   resolved, invocations>>

\* Ending every run as FINISHED, as a bare mlflow.end_run() would.
EndStatus_AlwaysFinished(exc) == "FINISHED"

\* The status the context manager of mlflow.start_run() ends the run with.
EndStatus(exc) == IF exc = "" THEN "FINISHED" ELSE "FAILED"

\* A run ended by a call at the end of the block instead of a context
\* manager: an exception skips it.
ExitRun_SuccessOnly(p) ==
    /\ pc[p] = "exit"
    /\ runs' = IF loc[p].exc # "" THEN runs
               ELSE [runs EXCEPT ![loc[p].run_id].status = "FINISHED",
                                 ![loc[p].run_id].ends = @ + 1]
    /\ Goto(p, IF loc[p].exc = "" THEN "returned" ELSE "raised")
    /\ UNCHANGED <<loc, experiments, col_types_json, lb_files, lb_csv,
                   resolved, invocations>>

\* train.py:50 and 164, leaving the `with` block: end_run with the status,
\* then the entry point returns or the exception propagates.
ExitRun(p) ==
    /\ pc[p] = "exit"
    /\ runs' = [runs EXCEPT ![loc[p].run_id].status = EndStatus(loc[p].exc),
                            ![loc[p].run_id].ends = @ + 1]
    /\ Goto(p, IF loc[p].exc = "" THEN "returned" ELSE "raised")
    /\ UNCHANGED <<loc, experiments, col_types_json, lb_files, lb_csv,
                   resolved, invocations>>

\* The entry point is left (train.py:88, 195, or a propagating exception):
\* its local variables are gone.
Leave(p) ==
    /\ pc[p] \in Leaving
    /\ Goto(p, "idle")
    /\ loc' = [loc EXCEPT ![p] = InitLocal]
    /\ UNCHANGED <<experiments, runs, col_types_json, lb_files, lb_csv,
                   resolved, invocations>>

\* ------------------------------------------------------------------- Next
Step(p) ==
    \/ H2OInit(p)
    \/ CheckExists(p)
    \/ ImportFile(p)
    \/ PersistColTypes(p)
    \/ SelectPredictors(p)
    \/ AsFactor(p)
    \/ CreateExperimentCheck(p)
    \/ CreateExperimentWrite(p)
    \/ LookupInTry(p)
    \/ FallbackLookup(p)
    \/ SetExperiment(p)
    \/ PrintDetails(p)
    \/ StartRun(p)
    \/ LogInputData(p)
    \/ LogColTypes(p)
    \/ AutoMLTrain(p)
    \/ LogLogLoss(p)
    \/ LogAUC(p)
    \/ LogModel(p)
    \/ GetArtifactUri(p)
    \/ WriteLeaderboard(p)
    \/ ExitRun(p)
    \/ Leave(p)

Next == \E p \in Procs : Start(p) \/ Step(p)

Spec == Init /\ [][Next]_vars

\* One invocation at a time: an entry point is invoked only while no caller
\* is inside one.
SeqStart(p) ==
    /\ \A q \in Procs : pc[q] = "idle"
    /\ Start(p)

SeqNext == \E p \in Procs : SeqStart(p) \/ Step(p)

SpecSeq == Init /\ [][SeqNext]_vars

\* The caller inside an entry point keeps executing: each blocking call
\* returns or raises.
FairSeq == SpecSeq /\ \A p \in Procs : WF_vars(Step(p))

\* ------------------------------------------------------------------ claims
StoreCalls == {"create_experiment", "get_experiment_by_name",
               "set_experiment", "start_run"}

UniqueNames ==
    \A i, j \in ExperimentIds : experiments[i].name = experiments[j].name => i = j

\* C1: when invocations follow one another, every resolution of a name
\* returns the same experiment_id, and the store holds at most one
\* experiment of each name.
IdempotentResolution ==
    /\ \A a, b \in resolved : a[1] = b[1] => a[2] = b[2]
    /\ UniqueNames

\* A later train() call gets, from its fallback lookup, the experiment an
\* earlier invocation created for "exp-A".
IdempotentResolutionWitness ==
    \E p \in Procs :
        /\ loc[p].entry = "train"
        /\ loc[p].name = "exp-A"
        /\ loc[p].experiment # None
        /\ loc[p].experiment_id = loc[p].experiment

\* The experiment_id a caller goes on with: train() keeps experiment_id
\* (train.py:42, 45), main() reads experiment.experiment_id (train.py:144, 188).
ResolvedId(p) ==
    IF loc[p].entry = "train" THEN loc[p].experiment_id ELSE loc[p].experiment

\* C2: concurrent callers resolving the same unseen name end with one
\* experiment of that name, and all of them hold its experiment_id.
RaceLoserObservesWinner ==
    /\ \A i, j \in ExperimentIds :
          experiments[i].name = experiments[j].name => i = j
    /\ \A p, q \in Procs :
          (/\ loc[p].name = loc[q].name
           /\ pc[p] # "idle" /\ pc[q] # "idle"
           /\ ResolvedId(p) # None /\ ResolvedId(q) # None)
          => ResolvedId(p) = ResolvedId(q)

RunClosed(r) == r \in RunIds /\ runs[r].status # "RUNNING"
SomeRunOpen == \E r \in RunIds : runs[r].status = "RUNNING"
AllRunsClosedOnce ==
    \A r \in RunIds : runs[r].status # "RUNNING" /\ runs[r].ends = 1

\* C3: every started run is closed exactly once: again and again a state is
\* reached in which no run is RUNNING and every run has been ended once
\* (a closed run never reopens and ends only grows, so a run left open, or
\* ended twice, would keep such a state from ever coming back).
EveryRunClosedOnce == []<>AllRunsClosedOnce

\* A run that was closed although a step inside it raised.
EveryRunClosedOnceWitness ==
    \E p \in Procs :
        /\ pc[p] = "raised"
        /\ loc[p].run_id # None
        /\ RunClosed(loc[p].run_id)
        /\ AllRunsClosedOnce

\* C4: a missing input file fails with FileNotFoundError before the
\* tracking store or the training engine has been called, and without a run.
MissingInputFailsFast ==
    \A p \in Procs :
        (pc[p] = "raised" /\ loc[p].exc = "FileNotFoundError")
        => /\ loc[p].calls \cap (StoreCalls \cup {"aml.train"}) = {}
           /\ loc[p].experiment_id = None
           /\ loc[p].run_id = None

\* C5: with a target that is no column of the loaded frame, the entry point
\* never starts a run and never calls the engine's training, and the
\* exception it leaves with is InvalidTargetError.
TargetMissing(p) ==
    /\ loc[p].frame.cols # <<>>
    /\ loc[p].target \notin DOMAIN loc[p].frame.types

InvalidTargetFailsFast ==
    \A p \in Procs :
        TargetMissing(p)
        => /\ "aml.train" \notin loc[p].calls
           /\ "start_run" \notin loc[p].calls
           /\ loc[p].run_id = None
           /\ pc[p] \in {"col_types", "predictors", "asfactor", "raised"}
           /\ pc[p] = "raised" => loc[p].exc = "InvalidTargetError"

InvalidTargetFailsFastWitness ==
    \E p \in Procs :
        /\ TargetMissing(p)
        /\ pc[p] = "raised"
        /\ loc[p].exc = "InvalidTargetError"

\* C6: a run is FINISHED only if no step inside it raised; a run whose
\* block was left by an exception is FAILED.
FinishedOnlyIfAllSucceeded ==
    \A p \in Procs :
        loc[p].run_id # None
        => /\ runs[loc[p].run_id].status = "FINISHED" => loc[p].exc = ""
           /\ pc[p] = "raised" => runs[loc[p].run_id].status = "FAILED"

\* A run that failed after its model was published.
FinishedOnlyIfAllSucceededWitness ==
    \E p \in Procs :
        /\ pc[p] = "raised"
        /\ loc[p].run_id # None
        /\ runs[loc[p].run_id].status = "FAILED"
        /\ "model" \in runs[loc[p].run_id].artifacts

\* C7: every FINISHED run holds the input dataset, the column-type
\* snapshot, both metrics, the model and the leaderboard beside the model.
FinishedRunIsComplete ==
    \A r \in RunIds :
        runs[r].status = "FINISHED"
        => /\ {"input_data/dataset", "input_data/col_types", "model"}
                 \subseteq runs[r].artifacts
           /\ {"log_loss", "AUC"} \subseteq runs[r].metrics
           /\ LocalPath(ArtifactUri(r, "model")) \in lb_files

\* C8: a leaderboard is written, or its write attempted, only for a run
\* whose model artifact has been published.
LeaderboardAfterModel ==
    /\ \A path \in lb_files :
          path.run \in RunIds /\ "model" \in runs[path.run].artifacts
    /\ \A p \in Procs :
          loc[p].lb_path # NoPath => "model" \in runs[loc[p].run_id].artifacts

LeaderboardAfterModelWitness ==
    \E p \in Procs :
        /\ loc[p].lb_path \in lb_files
        /\ "model" \in runs[loc[p].run_id].artifacts

\* C9: the path the leaderboard is written to is the model artifact
\* location the store reports for the run.
LeaderboardAtReportedLocation ==
    \A p \in Procs :
        loc[p].lb_path # NoPath
        => loc[p].lb_path = LocalPath(ArtifactUri(loc[p].run_id, "model"))

\* C10: train_col_types.json always holds the raw types of an input frame,
\* never a type produced by factorizing the target.
RawSchemas == {FrameOf(f).types : f \in FilePaths}

SnapshotHoldsRawTypes ==
    col_types_json = <<>> \/ JsonLoad(col_types_json) \in RawSchemas

\* The target has been factorized in the frame and the persisted snapshot
\* still has its raw type.
SnapshotHoldsRawTypesWitness ==
    \E p \in Procs :
        /\ loc[p].target \in DOMAIN loc[p].frame.types
        /\ loc[p].frame.types[loc[p].target] = "enum"
        /\ JsonLoad(col_types_json) = FrameOf(loc[p].file).types
        /\ JsonLoad(col_types_json)[loc[p].target] # "enum"

\* C11: metrics, artifacts and the leaderboard export of a run are written
\* only while the run is RUNNING: no step changes the metrics, the artifact
\* set, the published snapshot or the leaderboard of a run that is FINISHED
\* or FAILED.
ClosedRunFrozen ==
    [][\A r \in RunIds :
          runs[r].status # "RUNNING"
          => /\ runs'[r].metrics = runs[r].metrics
             /\ runs'[r].artifacts = runs[r].artifacts
             /\ runs'[r].col_types = runs[r].col_types
             /\ runs'[r].lb = runs[r].lb
             /\ \A f \in lb_files' :
                   f.run = r => f \in lb_files /\ lb_csv'[f] = lb_csv[f]]_vars

\* A closed run holds metrics and a model while a later run is being
\* written to.
ClosedRunFrozenWitness ==
    \E r1, r2 \in RunIds :
        /\ runs[r1].status # "RUNNING"
        /\ runs[r1].metrics = {"log_loss", "AUC"}
        /\ "model" \in runs[r1].artifacts
        /\ runs[r2].status = "RUNNING"
        /\ runs[r2].metrics # {}
        /\ runs[r2].lb # NoPath

\* The location a local path names, as a file: URI.
FileUri(path) ==
    [scheme |-> "file", root |-> path.root, exp |-> path.exp,
     run |-> path.run, sub |-> path.sub]

\* The run-scoped locations the orchestrator has written for run r: its
\* published artifacts and its leaderboard export.
WrittenFor(r) ==
    {ArtifactUri(r, a) : a \in runs[r].artifacts}
    \cup (IF runs[r].lb = NoPath THEN {} ELSE {FileUri(runs[r].lb)})

\* C12: run isolation: no location written for one run is a location
\* written for another run, of the same or of another experiment.
RunIsolation ==
    \A r1, r2 \in RunIds :
        r1 # r2 => WrittenFor(r1) \cap WrittenFor(r2) = {}

\* Two runs of one experiment, open at the same time, each with its model
\* published and its leaderboard exported.
RunIsolationWitness ==
    \E r1, r2 \in RunIds :
        /\ r1 # r2
        /\ runs[r1].exp = runs[r2].exp
        /\ runs[r1].status = "RUNNING" /\ runs[r2].status = "RUNNING"
        /\ "model" \in runs[r1].artifacts /\ "model" \in runs[r2].artifacts
        /\ runs[r1].lb # NoPath /\ runs[r2].lb # NoPath

\* The model ids of the data lines of a leaderboard.csv, in file order.
CsvModelIds(csv) == [i \in 1..(Len(csv) - 1) |-> csv[i + 1][1]]

\* The model ids of an engine leaderboard, in rank order.
RankOrder(lb) == [i \in 1..Len(lb) |-> lb[i].model_id]

\* C13: the data lines of an exported leaderboard.csv list the models in the
\* rank order the engine reported, each model once, for every leaderboard
\* of at least 2 entries.
LeaderboardOrderPreserved ==
    \A p \in Procs :
        (loc[p].lb_path \in lb_files /\ Len(loc[p].leaderboard) >= 2)
        => CsvModelIds(lb_csv[loc[p].lb_path]) = RankOrder(loc[p].leaderboard)

\* A three-entry leaderboard has been exported: header and three lines, the
\* engine's leader first.
LeaderboardOrderPreservedWitness ==
    \E p \in Procs :
        /\ loc[p].lb_path \in lb_files
        /\ Len(loc[p].leaderboard) = 3
        /\ Len(lb_csv[loc[p].lb_path]) = 4
        /\ lb_csv[loc[p].lb_path][2][1] = loc[p].leaderboard[1].model_id

\* C14: snapshot round trip: right after an entry point has persisted the
\* types of its frame, loading train_col_types.json gives exactly that
\* mapping: every column with its type, and no entry of a snapshot the file
\* held before.
SnapshotRoundTrip ==
    [][\A p \in Procs :
          (pc[p] = "col_types" /\ pc'[p] # "col_types")
          => JsonLoad(col_types_json') = loc[p].frame.types]_vars

\* The file holds the snapshot of the two-column dataset, written over the
\* snapshot of the three-column one, which an earlier run has published.
SnapshotRoundTripWitness ==
    \E p \in Procs, r \in RunIds :
        /\ pc[p] = "predictors"
        /\ loc[p].file = AltCsv
        /\ DOMAIN JsonLoad(col_types_json) = {"claim", "age"}
        /\ runs[r].col_types # <<>>
        /\ "income" \in DOMAIN JsonLoad(runs[r].col_types)

\* C15: the engine's training is invoked at most once per invocation; when
\* it raises, control leaves the run block with that TrainingError, the run
\* holds no metric, no model and no leaderboard export, and it is FAILED
\* when the error reaches the caller.
TrainingFailurePropagates ==
    \A p \in Procs :
        /\ loc[p].train_calls <= 1
        /\ loc[p].exc = "TrainingError"
           => /\ pc[p] \in {"exit", "raised"}
              /\ loc[p].train_calls = 1
              /\ runs[loc[p].run_id].metrics = {}
              /\ "model" \notin runs[loc[p].run_id].artifacts
              /\ runs[loc[p].run_id].lb = NoPath
              /\ \A f \in lb_files : f.run # loc[p].run_id
              /\ pc[p] = "raised" => runs[loc[p].run_id].status = "FAILED"

\* The TrainingError has reached the caller of train(), whose run is FAILED
\* and holds the input artifacts only.
TrainingFailurePropagatesWitness ==
    \E p \in Procs :
        /\ pc[p] = "raised"
        /\ loc[p].exc = "TrainingError"
        /\ loc[p].entry = "train"
        /\ runs[loc[p].run_id].status = "FAILED"
        /\ runs[loc[p].run_id].artifacts =
              {"input_data/dataset", "input_data/col_types"}

\* C16: when a store call of the experiment resolution could not reach the
\* store, the caller is left with RegistryUnavailableError and nothing
\* else: no other exception, and no entry point going on, or starting a
\* run, without the experiment_id of an experiment of that name.  (A
\* resolution that the fallback lookup completes with such an experiment is
\* taken as one that did reach the store.)
StoreFailureReportedAsSuch ==
    \A p \in Procs :
        loc[p].store_down
        => /\ pc[p] = "raised" => loc[p].exc = "RegistryUnavailableError"
           /\ pc[p] \notin {"lookup", "raised"} => ResolvedId(p) # None
           /\ loc[p].run_id # None => ResolvedId(p) # None

\* C17: the column-type snapshot published in a run's input_data is the
\* snapshot captured from the frame of the invocation that owns the run.
PublishedSnapshotIsOwn ==
    \A p \in Procs :
        (/\ loc[p].run_id # None
         /\ "input_data/col_types" \in runs[loc[p].run_id].artifacts)
        => JsonLoad(runs[loc[p].run_id].col_types) = FrameOf(loc[p].file).types

RunBelongsToResolved ==
    \A p \in Procs :
        loc[p].run_id # None => runs[loc[p].run_id].exp = ResolvedId(p)

====
